---- MODULE Spec2Model ----
(***************************************************************************)
(* RoomOverridesSection.tsx: the "Room notifications" settings section.    *)
(* One RoomOverridesSection component lists the rooms whose notification   *)
(* settings are overridden, one RoomOverrideTile per room.  The store      *)
(* (NotificationSettingStore), the client (cli.getRoom), the enum          *)
(* NotificationSetting and roundRoomNotificationSetting live outside the   *)
(* file; they are modelled as the environment of the component.            *)
(***************************************************************************)
EXTENDS Naturals, Sequences, FiniteSets, TLC

\* ---------------------------------------------------------------- bounds
\* the rooms of the account, in the order the store lists them
RoomOrder == <<"!direct:hs", "!group:hs">>

Rooms == {RoomOrder[i] : i \in 1..Len(RoomOrder)}

\* the rooms that are direct chats (DMRoomMap)
DirectRooms == {"!direct:hs"}

\* the number of "Reset all rooms" dialogs the model lets stack up
MaxDialogs == 1

\* ------------------------------------------------- NotificationSetting
AllMessages == "AllMessages"
DirectMessagesMentionsKeywords == "DirectMessagesMentionsKeywords"
MentionsKeywordsOnly == "MentionsKeywordsOnly"
Never == "Never"

NotificationSetting ==
    {AllMessages, DirectMessagesMentionsKeywords, MentionsKeywordsOnly, Never}

\* null / undefined: an override that is not set
Unset == "null"

OverrideValue == NotificationSetting \cup {Unset}

\* the value React renders for `return null`
NoOutput == [kind |-> "null"]

\* the outcome of a render that throws (TypeError on room.name)
Fault == [kind |-> "fault"]

VARIABLES
    storeNotify,    \* NotificationSettingStore: room -> notify override
    storeSound,     \* NotificationSettingStore: room -> sound override
    cliRooms,       \* the rooms cli.getRoom(roomId) finds
    notifyMeWith,   \* prop of RoomOverridesSection
    playSoundFor,   \* prop of RoomOverridesSection
    phase,          \* "unmounted" | "null" | "section" | "fault"
    rooms,          \* useRef(store.getOverridenRooms()).current
    overrides,      \* per mounted tile: the useState pair <<notify, sound>>
    menuDisplayed,  \* per mounted tile: useContextMenu's menuDisplayed
    dialogs         \* how many "Reset all rooms" QuestionDialogs are showing

vars == <<storeNotify, storeSound, cliRooms, notifyMeWith, playSoundFor,
          phase, rooms, overrides, menuDisplayed, dialogs>>

storeVars == <<storeNotify, storeSound>>
envVars == <<cliRooms>>
propVars == <<notifyMeWith, playSoundFor>>

\* ------------------------------------------------------------- helpers
Range(s) == {s[i] : i \in DOMAIN s}

\* JavaScript truthiness of an override value: null, undefined and the
\* empty string are falsy, every other string is truthy
IsTruthy(v) == v # Unset /\ v # ""

\* a || b
JsOr(a, b) == IF IsTruthy(a) THEN a ELSE b

\* ------------------------------------------------ the store (external)
\* store.getRoomNotifyOverride(roomId)
getRoomNotifyOverride(roomId) == storeNotify[roomId]

\* store.getRoomSoundOverride(roomId)
getRoomSoundOverride(roomId) == storeSound[roomId]

RECURSIVE OverridenFrom(_)
OverridenFrom(i) ==
    IF i > Len(RoomOrder) THEN <<>>
    ELSE IF storeNotify[RoomOrder[i]] # Unset \/ storeSound[RoomOrder[i]] # Unset
         THEN <<RoomOrder[i]>> \o OverridenFrom(i + 1)
         ELSE OverridenFrom(i + 1)

\* store.getOverridenRooms(): the rooms with an override, in the store's order
getOverridenRooms == OverridenFrom(1)

\* getEventRoomOverrideChanged(roomId): the event name scoped to the room
getEventRoomOverrideChanged(roomId) == <<"room_override_changed", roomId>>

\* roundRoomNotificationSetting(roomId, level): a level a room can be set to
roundRoomNotificationSetting(roomId, level) ==
    IF level = DirectMessagesMentionsKeywords
    THEN IF roomId \in DirectRooms THEN AllMessages ELSE MentionsKeywordsOnly
    ELSE level

\* --------------------------------------------------------- React hooks
\* useRef(initial).current / useState(initial)[0]: the initial value on the
\* first render, the kept value on every later render
\* mutant: the list is read from the store on every render
useRef_refetch(mounted, current, initial) == initial

useRef(mounted, current, initial) == IF mounted THEN current ELSE initial

useState(mounted, current, initial) == IF mounted THEN current ELSE initial

\* ------------------------------------------------------- pure rendering
mapNotificationLevelToString(level) ==
    CASE level = AllMessages -> "All Messages"
      [] level = DirectMessagesMentionsKeywords -> "Mentions & Keywords"
      [] level = MentionsKeywordsOnly -> "Mentions & Keywords"
      [] OTHER -> "None"

\* mutant: the operands of || swapped
NotifyLevel_swapped(notifyLevelOverride, soundLevelOverride, roundedNotifyMeWith, roundedPlaySoundFor) ==
    JsOr(roundedNotifyMeWith, notifyLevelOverride)

\* notifyLevel = notifyLevelOverride || roundedNotifyMeWith
NotifyLevel(notifyLevelOverride, soundLevelOverride, roundedNotifyMeWith, roundedPlaySoundFor) ==
    JsOr(notifyLevelOverride, roundedNotifyMeWith)

\* soundLevel = soundLevelOverride || roundedPlaySoundFor
SoundLevel(notifyLevelOverride, soundLevelOverride, roundedNotifyMeWith, roundedPlaySoundFor) ==
    JsOr(soundLevelOverride, roundedPlaySoundFor)

\* mutant: the tag follows the selected level instead of the rounded default
MenuItem_tagSelected(itemLevel, notifyLevel, soundLevel, roundedNotifyMeWith) ==
    [ text       |-> mapNotificationLevelToString(itemLevel),
      selected   |-> (notifyLevel = itemLevel),
      defaultTag |-> (notifyLevel = itemLevel) ]

\* mutant: an item is selected when its text is the text of the level
MenuItem_selectedByText(itemLevel, notifyLevel, soundLevel, roundedNotifyMeWith) ==
    [ text       |-> mapNotificationLevelToString(itemLevel),
      selected   |-> (mapNotificationLevelToString(notifyLevel)
                        = mapNotificationLevelToString(itemLevel)),
      defaultTag |-> (roundedNotifyMeWith = itemLevel) ]

\* one <MenuItem> of the context menu
MenuItem(itemLevel, notifyLevel, soundLevel, roundedNotifyMeWith) ==
    [ text       |-> mapNotificationLevelToString(itemLevel),
      selected   |-> (notifyLevel = itemLevel),
      defaultTag |-> (roundedNotifyMeWith = itemLevel) ]

\* the levels of the three menu items, in the order they are rendered
MenuLevels == <<AllMessages, MentionsKeywordsOnly, Never>>

\* mutant: the button shows the sound level
ButtonLabel_sound(notifyLevel, soundLevel) == mapNotificationLevelToString(soundLevel)

\* the label of the <ContextMenuButton>
ButtonLabel(notifyLevel, soundLevel) == mapNotificationLevelToString(notifyLevel)

\* mutant: the name is read as room?.name || roomId
RoomName_fallback(roomId, known) == [kind |-> "name", room |-> roomId]

\* <span>{room.name || roomId}</span>: room is null for an unknown room
RoomName(roomId, known) == IF known THEN [kind |-> "name", room |-> roomId] ELSE Fault

\* the output of RoomOverrideTile for one room
RoomOverrideTile(roomId, nmw, psf, held, menu, known) ==
    LET roundedNotifyMeWith == roundRoomNotificationSetting(roomId, nmw)
        roundedPlaySoundFor == roundRoomNotificationSetting(roomId, psf)
        notifyLevel == NotifyLevel(held[1], held[2], roundedNotifyMeWith, roundedPlaySoundFor)
        soundLevel == SoundLevel(held[1], held[2], roundedNotifyMeWith, roundedPlaySoundFor)
        name == RoomName(roomId, known)
    IN  IF name = Fault THEN Fault
        ELSE [ kind     |-> "tile",
               roomId   |-> roomId,
               label    |-> ButtonLabel(notifyLevel, soundLevel),
               expanded |-> menu,
               items    |-> IF menu
                            THEN [i \in 1..3 |-> MenuItem(MenuLevels[i], notifyLevel,
                                                          soundLevel, roundedNotifyMeWith)]
                            ELSE <<>> ]

\* mutant: the warning tests the other prop
Description_wrongProp(nmw, psf) ==
    IF psf = Never THEN "warning" ELSE "description"

\* the description element of the section
Description(nmw, psf) ==
    IF nmw = Never THEN "warning" ELSE "description"

\* mutant: the section is skipped for a single room as well
RoomOverridesSection_offByOne(nmw, psf, list) ==
    IF Len(list) <= 1 THEN NoOutput
    ELSE [ kind        |-> "section",
           description |-> Description(nmw, psf),
           tiles       |-> list,
           resetButton |-> TRUE ]

\* the return value of RoomOverridesSection: null, or the section with its
\* description, one tile element per room (keyed by roomId) and the button
RoomOverridesSection(nmw, psf, list) ==
    IF Len(list) < 1 THEN NoOutput
    ELSE [ kind        |-> "section",
           description |-> Description(nmw, psf),
           tiles       |-> list,
           resetButton |-> TRUE ]

\* the tree React commits for the section: the section's own output with every
\* tile rendered; a tile that throws takes the whole tree down
Committed(nmw, psf, list, held, menus) ==
    LET out == RoomOverridesSection(nmw, psf, list)
    IN  IF out = NoOutput THEN NoOutput
        ELSE IF \E i \in 1..Len(list) :
                   RoomOverrideTile(list[i], nmw, psf, held[list[i]],
                                    menus[list[i]], list[i] \in cliRooms) = Fault
             THEN Fault
        ELSE [ kind        |-> "section",
               description |-> out.description,
               tiles       |-> [i \in 1..Len(list) |->
                                  RoomOverrideTile(list[i], nmw, psf, held[list[i]],
                                                   menus[list[i]], list[i] \in cliRooms)],
               resetButton |-> out.resetButton ]

\* what is on screen
View ==
    CASE phase = "unmounted" -> NoOutput
      [] phase = "null" -> NoOutput
      [] phase = "fault" -> Fault
      [] OTHER -> Committed(notifyMeWith, playSoundFor, rooms, overrides, menuDisplayed)

\* ------------------------------------------------------------------ Init
Init ==
    /\ storeNotify \in [Rooms -> OverrideValue]
    /\ storeSound \in [Rooms -> OverrideValue]
    /\ cliRooms \in SUBSET Rooms
    /\ notifyMeWith \in NotificationSetting
    /\ playSoundFor \in NotificationSetting
    /\ phase = "unmounted"
    /\ rooms = <<>>
    /\ overrides = <<>>
    /\ menuDisplayed = <<>>
    /\ dialogs = 0

\* --------------------------------------------------------------- actions
\* One render pass of RoomOverridesSection and of the tiles it returns, with
\* the props nmw and psf.  mounted: the component instance already exists.
Render(mounted, nmw, psf) ==
    LET list == useRef(mounted, rooms, getOverridenRooms)
        out == RoomOverridesSection(nmw, psf, list)
        tiles == Range(list)
    IN  /\ rooms' = list
        /\ notifyMeWith' = nmw
        /\ playSoundFor' = psf
        /\ IF out = NoOutput
           THEN /\ phase' = "null"
                /\ overrides' = <<>>
                /\ menuDisplayed' = <<>>
           ELSE IF \E r \in tiles : RoomName(r, r \in cliRooms) = Fault
           THEN /\ phase' = "fault"
                /\ overrides' = <<>>
                /\ menuDisplayed' = <<>>
           ELSE /\ phase' = "section"
                /\ overrides' =
                     [r \in tiles |->
                        IF r \in DOMAIN overrides
                        THEN useState(TRUE, overrides[r],
                                      <<getRoomNotifyOverride(r), getRoomSoundOverride(r)>>)
                        ELSE useState(FALSE, <<Unset, Unset>>,
                                      <<getRoomNotifyOverride(r), getRoomSoundOverride(r)>>)]
                /\ menuDisplayed' =
                     [r \in tiles |->
                        IF r \in DOMAIN menuDisplayed THEN menuDisplayed[r] ELSE FALSE]

\* the settings tab mounts the section
Mount ==
    /\ phase = "unmounted"
    /\ Render(FALSE, notifyMeWith, playSoundFor)
    /\ UNCHANGED <<storeVars, envVars, dialogs>>

\* the parent renders the section again; its two props follow two account
\* settings, of which at most one changes between two renders
Rerender(nmw, psf) ==
    /\ phase \in {"null", "section"}
    /\ nmw = notifyMeWith \/ psf = playSoundFor
    /\ Render(TRUE, nmw, psf)
    /\ UNCHANGED <<storeVars, envVars, dialogs>>

\* mutant: every tile listens to every room's event
Listeners_all(event) ==
    IF phase = "section" THEN DOMAIN overrides ELSE {}

\* the tiles whose useEventEmitter subscription listens to the event
Listeners(event) ==
    IF phase = "section"
    THEN {t \in DOMAIN overrides : getEventRoomOverrideChanged(t) = event}
    ELSE {}

\* While the section is mounted the store changes the overrides of a room and
\* emits the room's change event with the new pair; every listening tile calls
\* setOverrides on it.  A change sets or clears one of the two overrides of
\* the room, or clears both.  (Init ranges over every content of the store, so
\* the changes before the mount are covered there.)
StoreChange(roomId, notify, sound) ==
    /\ phase \in {"null", "section"}
    /\ \/ notify = storeNotify[roomId]
       \/ sound = storeSound[roomId]
       \/ <<notify, sound>> = <<Unset, Unset>>
    /\ <<notify, sound>> # <<storeNotify[roomId], storeSound[roomId]>>
    /\ storeNotify' = [storeNotify EXCEPT ![roomId] = notify]
    /\ storeSound' = [storeSound EXCEPT ![roomId] = sound]
    /\ overrides' =
         [t \in DOMAIN overrides |->
            IF t \in Listeners(getEventRoomOverrideChanged(roomId))
            THEN <<notify, sound>>
            ELSE overrides[t]]
    /\ UNCHANGED <<envVars, propVars, phase, rooms, menuDisplayed, dialogs>>

\* useContextMenu: openMenu / closeMenu
openMenu(menus, roomId) == [menus EXCEPT ![roomId] = TRUE]

closeMenu(menus, roomId) == [menus EXCEPT ![roomId] = FALSE]

\* click on a tile's <ContextMenuButton>: onClick={openMenu}
OpenMenu(roomId) ==
    /\ phase = "section"
    /\ roomId \in DOMAIN menuDisplayed
    /\ menuDisplayed' = openMenu(menuDisplayed, roomId)
    /\ UNCHANGED <<storeVars, envVars, propVars, phase, rooms, overrides, dialogs>>

\* click on the i-th <MenuItem> of an open menu: onClick={closeMenu}
SelectItem(roomId, i) ==
    /\ phase = "section"
    /\ roomId \in DOMAIN menuDisplayed
    /\ menuDisplayed[roomId]
    /\ menuDisplayed' = closeMenu(menuDisplayed, roomId)
    /\ UNCHANGED <<storeVars, envVars, propVars, phase, rooms, overrides, dialogs>>

\* the menu is dismissed: <ContextMenu onFinished={closeMenu}>
DismissMenu(roomId) ==
    /\ phase = "section"
    /\ roomId \in DOMAIN menuDisplayed
    /\ menuDisplayed[roomId]
    /\ menuDisplayed' = closeMenu(menuDisplayed, roomId)
    /\ UNCHANGED <<storeVars, envVars, propVars, phase, rooms, overrides, dialogs>>

\* click on "Reset all rooms": Modal.createTrackedDialog(... QuestionDialog ...)
onResetAllRoomsClick ==
    /\ phase = "section"
    /\ dialogs < MaxDialogs
    /\ dialogs' = dialogs + 1
    /\ UNCHANGED <<storeVars, envVars, propVars, phase, rooms, overrides, menuDisplayed>>

\* mutant: Yes clears every override
onFinished_reset(yes, notifyStore) ==
    IF yes THEN [r \in Rooms |-> Unset] ELSE notifyStore

\* the body of onFinished: `if (yes) { // TODO }`
onFinished(yes, notifyStore) == notifyStore

\* the dialog is answered Yes or No and closes
DialogFinished(yes) ==
    /\ dialogs > 0
    /\ dialogs' = dialogs - 1
    /\ storeNotify' = onFinished(yes, storeNotify)
    /\ storeSound' = onFinished(yes, storeSound)
    /\ UNCHANGED <<envVars, propVars, phase, rooms, overrides, menuDisplayed>>

Next ==
    \/ Mount
    \/ \E nmw \in NotificationSetting, psf \in NotificationSetting : Rerender(nmw, psf)
    \/ \E r \in Rooms, n \in OverrideValue, s \in OverrideValue : StoreChange(r, n, s)
    \/ \E r \in Rooms : OpenMenu(r)
    \/ \E r \in Rooms, i \in 1..3 : SelectItem(r, i)
    \/ \E r \in Rooms : DismissMenu(r)
    \/ onResetAllRoomsClick
    \/ \E yes \in BOOLEAN : DialogFinished(yes)

Spec == Init /\ [][Next]_vars

TypeOK ==
    /\ storeNotify \in [Rooms -> OverrideValue]
    /\ storeSound \in [Rooms -> OverrideValue]
    /\ phase \in {"unmounted", "null", "section", "fault"}
    /\ DOMAIN overrides \subseteq Rooms
    /\ DOMAIN menuDisplayed = DOMAIN overrides
    /\ dialogs \in 0..MaxDialogs

\* ------------------------------------------------------ claim helpers
\* the rendered tile of a listed room
TileOf(roomId) ==
    RoomOverrideTile(roomId, notifyMeWith, playSoundFor, overrides[roomId],
                     menuDisplayed[roomId], roomId \in cliRooms)

\* the room ids of the tiles on screen, in the order shown
ShownRooms == [i \in 1..Len(View.tiles) |-> View.tiles[i].roomId]

\* the rounded default notify level of a room
RoundedDefault(roomId) == roundRoomNotificationSetting(roomId, notifyMeWith)

\* `override ?? rounded(default)`
Effective(roomId) ==
    IF overrides[roomId][1] # Unset THEN overrides[roomId][1] ELSE RoundedDefault(roomId)

\* C1: once mounted, the section renders null exactly when the captured room
\* list is empty; with a non-empty list RoomOverridesSection returns the
\* section (description, one tile per room, reset button) for every value of
\* notifyMeWith and playSoundFor.
C1_NullIffEmpty ==
    phase # "unmounted" =>
        /\ (phase = "null") <=> (Len(rooms) = 0)
        /\ (View = NoOutput) <=> (Len(rooms) = 0)
        /\ \A nmw \in NotificationSetting, psf \in NotificationSetting :
             LET out == RoomOverridesSection(nmw, psf, rooms)
             IN  IF Len(rooms) = 0
                 THEN out = NoOutput
                 ELSE /\ out.kind = "section"
                      /\ out.description \in {"warning", "description"}
                      /\ out.tiles = rooms
                      /\ out.resetButton
        /\ (phase = "section") => ShownRooms = rooms /\ View.resetButton

C1_Witness ==
    phase = "section" /\ Len(rooms) = 1 /\ View.kind = "section"

\* C2: the room list is captured at mount and never changes afterwards,
\* whatever the store does and however often the section renders again; the
\* tiles shown are exactly that list, in its order.
C2_ListNotReactive ==
    /\ [](phase = "section" => ShownRooms = rooms)
    /\ [][ /\ (phase = "unmounted" /\ phase' # "unmounted") => rooms' = getOverridenRooms
           /\ (phase # "unmounted") => rooms' = rooms ]_vars

C2_Witness ==
    /\ phase = "section"
    /\ Len(rooms) = 2
    /\ Len(getOverridenRooms) = 0
    /\ ShownRooms = rooms

\* C3: in a rendered section the warning is shown iff notifyMeWith is Never,
\* whatever playSoundFor is.
C3_WarningIffNever ==
    phase = "section" =>
        /\ (View.description = "warning") <=> (notifyMeWith = Never)
        /\ (View.description = "description") <=> (notifyMeWith # Never)
        /\ \A nmw \in NotificationSetting, psf \in NotificationSetting :
             (RoomOverridesSection(nmw, psf, rooms).description = "warning")
                 <=> (nmw = Never)

C3_Witness ==
    /\ phase = "section"
    /\ notifyMeWith = Never
    /\ playSoundFor # Never
    /\ View.description = "warning"

\* C4: in an open menu the "(default)" tag is on exactly one item, the item
\* whose level is the room's rounded default, whatever the room's override.
C4_DefaultTag ==
    phase = "section" =>
        \A r \in DOMAIN overrides :
            menuDisplayed[r] =>
                /\ \A i \in 1..3 :
                     TileOf(r).items[i].defaultTag <=> (MenuLevels[i] = RoundedDefault(r))
                /\ Cardinality({i \in 1..3 : TileOf(r).items[i].defaultTag}) = 1

C4_Witness ==
    /\ phase = "section"
    /\ \E r \in DOMAIN overrides :
         /\ menuDisplayed[r]
         /\ notifyMeWith = DirectMessagesMentionsKeywords
         /\ overrides[r][1] = Never
         /\ TileOf(r).items[3].selected
         /\ ~TileOf(r).items[3].defaultTag

\* C5: the effective notify level of a tile is its held notify override when
\* that is set and the rounded default otherwise; the button label is the
\* text of that level.
C5_EffectiveLevel ==
    phase = "section" =>
        \A r \in DOMAIN overrides :
            /\ NotifyLevel(overrides[r][1], overrides[r][2], RoundedDefault(r),
                           roundRoomNotificationSetting(r, playSoundFor)) = Effective(r)
            /\ TileOf(r).label = mapNotificationLevelToString(Effective(r))

C5_Witness ==
    /\ phase = "section"
    /\ \E r \in DOMAIN overrides :
         /\ overrides[r][1] = AllMessages
         /\ overrides[r][2] = Never
         /\ RoundedDefault(r) = Never
         /\ TileOf(r).label = "All Messages"

\* a step of the user on the component
UserAction ==
    \/ \E r \in Rooms : OpenMenu(r)
    \/ \E r \in Rooms, i \in 1..3 : SelectItem(r, i)
    \/ \E r \in Rooms : DismissMenu(r)
    \/ onResetAllRoomsClick
    \/ \E yes \in BOOLEAN : DialogFinished(yes)

\* C6: no user step (open a menu, select an item, dismiss a menu, click
\* "Reset all rooms", answer the dialog Yes or No) changes an override in the
\* store, the captured room list or the overrides a tile holds; selecting an
\* item only closes that menu and the reset click only opens a dialog.
C6_ReadOnly ==
    [][ /\ UserAction =>
             UNCHANGED <<storeNotify, storeSound, rooms, overrides, phase, propVars>>
        /\ \A r \in Rooms, i \in 1..3 :
             SelectItem(r, i) =>
                 /\ menuDisplayed' = [menuDisplayed EXCEPT ![r] = FALSE]
                 /\ UNCHANGED dialogs
        /\ onResetAllRoomsClick =>
             /\ dialogs' = dialogs + 1
             /\ UNCHANGED menuDisplayed ]_vars

C6_Witness ==
    /\ phase = "section"
    /\ dialogs > 0
    /\ \E r \in DOMAIN menuDisplayed : menuDisplayed[r]
    /\ \E r \in DOMAIN menuDisplayed : ~menuDisplayed[r]
    /\ \A i \in 1..Len(rooms) : storeNotify[rooms[i]] # Unset /\ storeSound[rooms[i]] # Unset

\* the rooms whose pair of overrides the store changes in a step
ChangedRooms ==
    {r \in Rooms : <<storeNotify'[r], storeSound'[r]>> # <<storeNotify[r], storeSound[r]>>}

\* C7: a tile starts with the overrides the store holds at mount; a store
\* change event for its room replaces them by the event's pair; an event for
\* another room, and every other step, leaves them as they are.
C7_TileSubscription ==
    [][ /\ (phase = "unmounted" /\ phase' = "section") =>
             /\ DOMAIN overrides' = Range(rooms')
             /\ \A t \in DOMAIN overrides' : overrides'[t] = <<storeNotify[t], storeSound[t]>>
        /\ (phase = "section") =>
             /\ DOMAIN overrides' = DOMAIN overrides
             /\ \A t \in DOMAIN overrides :
                  overrides'[t] = IF t \in ChangedRooms
                                  THEN <<storeNotify'[t], storeSound'[t]>>
                                  ELSE overrides[t] ]_vars

C7_Witness ==
    /\ phase = "section"
    /\ Len(rooms) = 2
    /\ overrides[rooms[1]] = <<Unset, Unset>>
    /\ overrides[rooms[2]] = <<Never, AllMessages>>
    /\ TileOf(rooms[2]).label = "None"

\* C8: a captured room the client does not know makes the render fault: no
\* tile with a fallback name is shown and the tile is not skipped.
C8_MissingRoomFaults ==
    /\ (phase # "unmounted" /\ \E i \in 1..Len(rooms) : rooms[i] \notin cliRooms) =>
           phase = "fault" /\ View = Fault
    /\ (phase = "fault") => \E i \in 1..Len(rooms) : rooms[i] \notin cliRooms
    /\ \A r \in Rooms, n \in OverrideValue, m \in BOOLEAN :
           RoomOverrideTile(r, notifyMeWith, playSoundFor, <<n, storeSound[r]>>, m, FALSE) = Fault

C8_Witness ==
    /\ phase = "fault"
    /\ Len(rooms) = 2
    /\ rooms[1] \in cliRooms
    /\ rooms[2] \notin cliRooms

\* C9: in an open menu at most one item is selected and a selected item's
\* text is the button label; with the effective level
\* DirectMessagesMentionsKeywords the label is "Mentions & Keywords" and no
\* item is selected.
C9_Selection ==
    phase = "section" =>
        \A r \in DOMAIN overrides :
            menuDisplayed[r] =>
                /\ Cardinality({i \in 1..3 : TileOf(r).items[i].selected}) <= 1
                /\ \A i \in 1..3 :
                     TileOf(r).items[i].selected => TileOf(r).items[i].text = TileOf(r).label
                /\ (Effective(r) = DirectMessagesMentionsKeywords) =>
                     /\ TileOf(r).label = "Mentions & Keywords"
                     /\ \A i \in 1..3 : ~TileOf(r).items[i].selected

C9_Witness ==
    /\ phase = "section"
    /\ \E r \in DOMAIN overrides :
         /\ menuDisplayed[r]
         /\ Effective(r) = DirectMessagesMentionsKeywords
         /\ TileOf(r).label = "Mentions & Keywords"

\* C10: a tile's output does not depend on playSoundFor or on the sound
\* override it holds: replacing both by any other values gives the same tile;
\* a room with only a sound override shows its rounded default notify level.
C10_SoundIndependent ==
    phase = "section" =>
        \A r \in DOMAIN overrides :
            /\ \A s \in OverrideValue, psf \in NotificationSetting :
                 RoomOverrideTile(r, notifyMeWith, psf, <<overrides[r][1], s>>,
                                  menuDisplayed[r], r \in cliRooms) = TileOf(r)
            /\ (overrides[r][1] = Unset) =>
                 TileOf(r).label = mapNotificationLevelToString(RoundedDefault(r))

C10_Witness ==
    /\ phase = "section"
    /\ \E r \in DOMAIN overrides :
         /\ overrides[r] = <<Unset, AllMessages>>
         /\ playSoundFor = AllMessages
         /\ notifyMeWith = Never
         /\ menuDisplayed[r]
         /\ TileOf(r).label = "None"

====
